---- MODULE Spec2Model ----
(***************************************************************************)
(* TweetPurge: delete_tweets.py.                                           *)
(*                                                                         *)
(* A model of delete_tweets(client, tweets, dry_run, skip_confirm): the    *)
(* pre-flight gate, the load of the deletion log (the ledger file          *)
(* deleted_tweets_log.json), the deletion loop with its except branches,   *)
(* the rate-limit pause and retry, the proactive pause, and every write of *)
(* the ledger file.  The remote API is the environment: each delete call   *)
(* returns or raises one of the exception classes the code distinguishes,  *)
(* with a message that may hold any of the substrings the code looks for.  *)
(* The process can be killed between any two steps and in the middle of a  *)
(* write; the command can then be run again on the same candidate list.    *)
(*                                                                         *)
(* Spec is the specification of delete_tweets.  SpecFilter applies         *)
(* filter_tweets to lists and options drawn from small sets, and SpecFetch *)
(* is fetch_tweets_from_api with its cache file tweets_cache.json against  *)
(* a remote timeline of a few pages.                                       *)
(***************************************************************************)
EXTENDS Integers, Sequences, FiniteSets, TLC

(***************************************************************************)
(* Program constants.                                                      *)
(***************************************************************************)
RATE_LIMIT_DELETES == 50

RATE_LIMIT_WINDOW == 15 * 60

\* the margin of the proactive pause (RATE_LIMIT_DELETES - 2)
PAUSE_MARGIN == 2

\* the extra seconds of every time.sleep(RATE_LIMIT_WINDOW + 5)
SLEEP_BUFFER == 5

(***************************************************************************)
(* Bounds of the model.                                                    *)
(***************************************************************************)
\* longest candidate list of the short batches
MaxTweets == 2

\* number of times the command is run
MaxRuns == 2

\* failing delete calls the remote may answer in a run on the long batch
MaxLongFaults == 4

\* items of the long batch beyond RATE_LIMIT_DELETES
LongExtra == 1

(***************************************************************************)
(* Text.  A typed line is a sequence of characters.                        *)
(***************************************************************************)
DELETE == <<"D", "E", "L", "E", "T", "E">>

Whitespace == {" ", "\t"}

RECURSIVE LStrip(_)
LStrip(s) ==
    IF s = <<>> THEN s
    ELSE IF Head(s) \in Whitespace THEN LStrip(Tail(s)) ELSE s

RECURSIVE RStrip(_)
RStrip(s) ==
    IF s = <<>> THEN s
    ELSE IF s[Len(s)] \in Whitespace THEN RStrip(SubSeq(s, 1, Len(s) - 1)) ELSE s

\* str.strip()
Strip(s) == RStrip(LStrip(s))

\* the lines a user may type at the prompt
TypedInputs ==
    { DELETE,
      DELETE \o <<" ">>,
      <<"\t">> \o DELETE \o <<"!">>,
      <<"d", "e", "l", "e", "t", "e">>,
      <<"D", "E", "L", "E", "T">>,
      DELETE \o <<"!">>,
      <<"D", "E", " ", "L", "E", "T", "E">>,
      <<>> }

\* what is recorded as typed when input() is never called
NoInput == <<"-">>

(***************************************************************************)
(* Tweets and ledger entries.                                              *)
(***************************************************************************)
None == "None"

T1 == [id |-> "1", text |-> "hello", created_at |-> "2022-01-01"]

T2 == [id |-> "2", text |-> "buy crypto", created_at |-> "2023-06-01"]

\* the candidates
Tweets == {T1, T2}

\* the tweet with the id of T1 as an earlier fetch saw it: another text, no date
T1b == [id |-> "1", text |-> "hello (edited)", created_at |-> None]

\* the dict appended to log on a successful delete; deleted_at, the time of
\* the append, is the run that made it
LogEntry(tweet, at) ==
    [id |-> tweet.id, text |-> tweet.text,
     created_at |-> tweet.created_at, deleted_at |-> at]

RECURSIVE SeqsUpTo(_, _)
SeqsUpTo(S, n) ==
    IF n = 0 THEN {<<>>}
    ELSE LET shorter == SeqsUpTo(S, n - 1)
         IN shorter \cup {Append(s, x) : s \in {q \in shorter : Len(q) = n - 1}, x \in S}

ShortLists == SeqsUpTo(Tweets, MaxTweets)

\* a batch long enough to reach the proactive pause
LongList == [k \in 1..(RATE_LIMIT_DELETES + LongExtra) |-> T2]

(***************************************************************************)
(* The ledger file: absent, a JSON list of entries, or torn (empty or      *)
(* partial text that json.loads rejects).                                  *)
(***************************************************************************)
NoFile == [exists |-> FALSE, valid |-> FALSE, entries |-> <<>>]

TornFile == [exists |-> TRUE, valid |-> FALSE, entries |-> <<>>]

FileOf(entries) == [exists |-> TRUE, valid |-> TRUE, entries |-> entries]

InitialFiles == {NoFile, FileOf(<<LogEntry(T1b, 0)>>)}

IdsOf(entries) == {entries[k].id : k \in 1..Len(entries)}

(***************************************************************************)
(* Outcomes of client.delete_tweet.                                        *)
(***************************************************************************)
Markers == {"402", "credits", "Payment Required", "spend cap"}

\* the substrings a message holds: none, one, or those of "402 Payment Required"
Messages == {{}} \cup {{m} : m \in Markers} \cup {{"402", "Payment Required"}}

\* the code reads the message of a Forbidden and of any other exception
Outcomes ==
    [cls : {"ok", "TooManyRequests", "NotFound"}, msg : {{}}]
        \cup [cls : {"Forbidden", "Exception"}, msg : Messages]

\* the signal the remote sends with outcome e: the exception class, and for
\* a Forbidden or any other exception whether the message tells that the
\* account cannot make further calls
Classify(e) ==
    CASE e.cls = "ok" -> "ok"
      [] e.cls = "TooManyRequests" -> "ratelimited"
      [] e.cls = "NotFound" -> "notfound"
      [] OTHER -> IF e.msg \cap Markers # {} THEN "exhausted" ELSE "other"

\* line 325 without its last test
IsExhaustedForbidden_NoSpendCap(msg) ==
    \/ "402" \in msg
    \/ "credits" \in msg
    \/ "Payment Required" \in msg

\* line 325: the test of the except Forbidden branch of the first attempt
IsExhaustedForbidden(msg) ==
    \/ "402" \in msg
    \/ "credits" \in msg
    \/ "Payment Required" \in msg
    \/ "spend cap" \in msg

\* line 335: the test of the except Exception branch of the first attempt
IsExhaustedException(msg) ==
    \/ "402" \in msg
    \/ "Payment Required" \in msg
    \/ "credits" \in msg
    \/ "spend cap" \in msg

\* line 308: the test of the except Forbidden branch of the retry
IsExhaustedRetry(msg) ==
    \/ "402" \in msg
    \/ "credits" \in msg

(***************************************************************************)
(* State.                                                                  *)
(***************************************************************************)
VARIABLES
    tweets,               \* the candidate list the command is run on
    file,                 \* deleted_tweets_log.json
    slept,                \* seconds this run has slept
    pc,                   \* where the process is
    dry_run, skip_confirm,
    typed,                \* the line read by input()
    log,                  \* the in-memory ledger
    already_deleted_ids,
    remaining,
    i,                    \* position of the loop in remaining
    deleted, failed, batch_count,
    runs,                 \* runs started so far
    faults,               \* failing delete calls answered in this run
    startFile,            \* the ledger file as this run found it
    nCalls,               \* delete calls issued in this run
    nRetries,             \* those of them that were retries
    lastCall,             \* the latest delete call of this run
    sincePause,           \* delete calls of this run since its last sleep
    succeeded,            \* ids whose delete call returned in this run
    ledgerReads,          \* reads of the ledger file in this run
    ledgerWrites,         \* writes of the ledger file in this run
    prevRun,              \* how the run before this one ended
    outcome,              \* what delete_tweets returned and the exit status
    filtered,             \* the list filter_tweets returned
    before_date, after_date, contains, exclude_contains,
    cache,                \* tweets_cache.json
    timeline,             \* the pages the remote holds
    pagination_token,
    answer,               \* the line read by input() at line 97
    requests,             \* the pages this fetch asked for, in order
    failedAt,             \* which request of this fetch raised, 0 for none
    pagesDone,            \* pages this fetch has processed
    returned,             \* the list fetch_tweets_from_api returned
    prevFetch             \* how the fetch before this one ended

locals == <<log, already_deleted_ids, remaining, i, deleted, failed, batch_count>>

args == <<dry_run, skip_confirm, typed>>

observers == <<startFile, nCalls, nRetries, lastCall, sincePause, succeeded,
               ledgerReads, ledgerWrites>>

\* the arguments and the result of filter_tweets
filterVars == <<filtered, before_date, after_date, contains, exclude_contains>>

\* the state of fetch_tweets_from_api, but for tweets
fetchVars == <<cache, timeline, pagination_token, answer, requests, failedAt, pagesDone,
               returned, prevFetch>>

\* what delete_tweets neither reads nor writes
outside == <<filterVars, fetchVars>>

vars == <<tweets, file, slept, pc, args, locals, runs, faults, observers,
          prevRun, outcome, outside>>

\* the process has not ended
NoOutcome == [result |-> "-", status |-> -1]

\* lines 226, 238, 248, 269, 356 and 402: every return of delete_tweets is a
\* return of None, and main ends after it
Returned == [result |-> None, status |-> 0]

\* an exception that nothing catches ends the process with a traceback
Traceback == [result |-> "-", status |-> 1]

\* the status of a process ended by SIGKILL
Killed == [result |-> "-", status |-> 137]

NoCall == [idx |-> 0, attempt |-> 0, kind |-> "none"]

Running == {"attempt", "rl_write", "rl_sleep", "retry", "abort_write",
            "pause_write", "pause_sleep", "final_write"}

Writing == {"rl_write", "abort_write", "pause_write", "final_write"}

FreshLocals ==
    /\ log = <<>>
    /\ already_deleted_ids = {}
    /\ remaining = <<>>
    /\ i = 1
    /\ deleted = 0
    /\ failed = 0
    /\ batch_count = 0

\* no text filter: None and the empty string are both false at lines 208, 213
NoText == <<>>

\* filter_tweets is not in use
NoFilter ==
    /\ filtered = <<>>
    /\ before_date = None
    /\ after_date = None
    /\ contains = NoText
    /\ exclude_contains = NoText

NoPrevFetch == [cut |-> FALSE, pages |-> 0]

\* fetch_tweets_from_api is not in use
NoFetch ==
    /\ cache = NoFile
    /\ timeline = <<"empty">>
    /\ pagination_token = None
    /\ answer = <<>>
    /\ requests = <<>>
    /\ failedAt = 0
    /\ pagesDone = 0
    /\ returned = <<>>
    /\ prevFetch = NoPrevFetch

FreshObservers ==
    /\ startFile = file
    /\ nCalls = 0
    /\ nRetries = 0
    /\ lastCall = NoCall
    /\ sincePause = 0
    /\ succeeded = {}
    /\ ledgerReads = 0
    /\ ledgerWrites = 0

Init ==
    /\ \/ tweets \in ShortLists /\ file \in InitialFiles
       \/ tweets = LongList /\ file = NoFile
    /\ faults = 0
    /\ slept = 0
    /\ pc = "idle"
    /\ dry_run = FALSE
    /\ skip_confirm = FALSE
    /\ typed = NoInput
    /\ FreshLocals
    /\ runs = 0
    /\ FreshObservers
    /\ prevRun = "none"
    /\ outcome = NoOutcome
    /\ NoFilter
    /\ NoFetch

(***************************************************************************)
(* delete_tweets, lines 221-269: the gate and the load of the ledger.      *)
(***************************************************************************)
\* line 246 as a test that the typed text starts the confirmation string
Confirmed_Prefix(line) ==
    /\ Len(Strip(line)) <= Len(DELETE)
    /\ SubSeq(DELETE, 1, Len(Strip(line))) = Strip(line)

\* lines 244-248: the typed line is accepted
Confirmed(line) == Strip(line) = DELETE

\* lines 228-250 with the dry-run test skipped under --yes
Gate_DryNeedsConfirm(ts, dry, skip, line) ==
    IF Len(ts) = 0 THEN "empty"
    ELSE IF dry /\ ~skip THEN "dry"
    ELSE IF ~skip /\ ~Confirmed(line) THEN "unconfirmed"
    ELSE "go"

\* lines 223-250: what the function does before it touches the ledger
Gate(ts, dry, skip, line) ==
    IF Len(ts) = 0 THEN "empty"
    ELSE IF dry THEN "dry"
    ELSE IF ~skip /\ ~Confirmed(line) THEN "unconfirmed"
    ELSE "go"

\* line 259 with the entries keyed by their text
LoadIds_ByText(entries) == {entries[k].text : k \in 1..Len(entries)}

\* line 259
LoadIds(entries) == IdsOf(entries)

\* line 262 without the filter
Remaining_KeepAll(ts, ids) == ts

\* line 262
Remaining(ts, ids) == SelectSeq(ts, LAMBDA t : t.id \notin ids)

\* the failing calls the remote may answer in one run
FaultBudget == IF Len(tweets) > MaxTweets THEN MaxLongFaults ELSE 2 * Len(tweets)

\* the long batch is run without rate-limit signals
RateLimitsLeft == Len(tweets) <= MaxTweets

Stopped == {"idle", "done", "dead"}

\* how the run that has stopped ended
Summary ==
    CASE pc = "dead" -> "dead"
      [] pc = "done" ->
            IF Gate(tweets, dry_run, skip_confirm, typed) # "go" THEN "refused"
            ELSE IF remaining = <<>> THEN "nothing"
            ELSE IF i <= Len(remaining) THEN "aborted"
            ELSE IF faults = 0 THEN "clean"
            ELSE "partial"
      [] OTHER -> "none"

\* the command is started: a new process, with its arguments
Invoke(dry, skip, line) ==
    /\ pc \in Stopped
    /\ runs < MaxRuns
    /\ runs' = runs + 1
    /\ prevRun' = Summary
    /\ dry_run' = dry
    /\ skip_confirm' = skip
    /\ typed' = IF Len(tweets) = 0 \/ dry \/ skip THEN NoInput ELSE line
    /\ faults' = 0
    /\ startFile' = file
    /\ nCalls' = 0
    /\ nRetries' = 0
    /\ lastCall' = NoCall
    /\ sincePause' = 0
    /\ succeeded' = {}
    /\ ledgerWrites' = 0
    /\ slept' = 0
    /\ UNCHANGED <<tweets, outside>>

\* lines 223-248: the function returns before the ledger is loaded
ReturnEarly ==
    \E dry \in BOOLEAN, skip \in BOOLEAN, line \in TypedInputs :
        /\ Invoke(dry, skip, line)
        /\ Gate(tweets, dry, skip, line) # "go"
        /\ pc' = "done"
        /\ outcome' = Returned
        /\ log' = <<>>
        /\ already_deleted_ids' = {}
        /\ remaining' = <<>>
        /\ i' = 1
        /\ deleted' = 0
        /\ failed' = 0
        /\ batch_count' = 0
        /\ ledgerReads' = 0
        /\ UNCHANGED file

\* lines 253-273: the ledger is loaded and the remaining items are selected
LoadLedger ==
    \E dry \in BOOLEAN, skip \in BOOLEAN, line \in TypedInputs :
        /\ Invoke(dry, skip, line)
        /\ Gate(tweets, dry, skip, line) = "go"
        /\ ledgerReads' = IF file.exists THEN 1 ELSE 0
        /\ UNCHANGED file
        /\ i' = 1
        /\ deleted' = 0
        /\ failed' = 0
        /\ batch_count' = 0
        /\ IF file.exists /\ ~file.valid
           THEN \* json.loads raises: the process ends with a traceback
                /\ pc' = "dead"
                /\ outcome' = Traceback
                /\ log' = <<>>
                /\ already_deleted_ids' = {}
                /\ remaining' = <<>>
           ELSE /\ log' = IF file.exists THEN file.entries ELSE <<>>
                /\ already_deleted_ids' = LoadIds(log')
                /\ remaining' = Remaining(tweets, already_deleted_ids')
                /\ pc' = IF Len(remaining') = 0 THEN "done" ELSE "attempt"
                /\ outcome' = IF Len(remaining') = 0 THEN Returned ELSE NoOutcome

(***************************************************************************)
(* delete_tweets, lines 276-351: the deletion loop.                        *)
(***************************************************************************)
\* client.delete_tweet(int(tweet_id)) is issued and answers e
Issue(attempt, e) ==
    /\ e.cls = "ok" \/ faults < FaultBudget
    /\ e.cls = "TooManyRequests" => RateLimitsLeft
    /\ faults' = IF e.cls = "ok" THEN faults ELSE faults + 1
    /\ nCalls' = nCalls + 1
    /\ nRetries' = IF attempt = 2 THEN nRetries + 1 ELSE nRetries
    /\ lastCall' = [idx |-> i, attempt |-> attempt, kind |-> Classify(e)]
    /\ sincePause' = sincePause + 1
    /\ succeeded' = IF e.cls = "ok" THEN succeeded \cup {remaining[i].id} ELSE succeeded

\* the for statement takes the next item, or the loop ends
Advance ==
    /\ i' = i + 1
    /\ pc' = IF i + 1 > Len(remaining) THEN "final_write" ELSE "attempt"

\* line 344: the test of the proactive pause, with batch_count b
PauseDue(b) == b >= RATE_LIMIT_DELETES - PAUSE_MARGIN

\* lines 343-348: the end of the loop body, with batch_count b
Continue(b) ==
    IF PauseDue(b)
    THEN pc' = "pause_write" /\ i' = i
    ELSE Advance

\* a break leaves the loop once the ledger is written
Break ==
    /\ pc' = "abort_write"
    /\ i' = i

\* lines 280-287 with the success counted as a failure too
Succeed_CountedTwice ==
    /\ deleted' = deleted + 1
    /\ failed' = failed + 1
    /\ batch_count' = batch_count + 1
    /\ log' = Append(log, LogEntry(remaining[i], runs))

\* lines 280-287 and 299-306: the call returned
Succeed ==
    /\ deleted' = deleted + 1
    /\ batch_count' = batch_count + 1
    /\ log' = Append(log, LogEntry(remaining[i], runs))
    /\ UNCHANGED failed

\* a failure that is not counted
Fail_Uncounted == UNCHANGED <<failed, deleted, batch_count, log>>

\* failed += 1
Fail ==
    /\ failed' = failed + 1
    /\ UNCHANGED <<deleted, batch_count, log>>

\* log_path.write_text(json.dumps(log, ...))
WriteLedger ==
    /\ file' = FileOf(log)
    /\ ledgerWrites' = ledgerWrites + 1

\* time.sleep(seconds)
Sleep(seconds) ==
    /\ slept' = slept + seconds
    /\ sincePause' = IF seconds >= RATE_LIMIT_WINDOW THEN 0 ELSE sincePause

frame == <<tweets, args, already_deleted_ids, remaining, runs, prevRun, startFile,
           ledgerReads, outside>>

\* lines 279-289
AttemptOk ==
    /\ pc = "attempt"
    /\ Issue(1, [cls |-> "ok", msg |-> {}])
    /\ Succeed
    /\ Continue(batch_count')
    /\ UNCHANGED <<frame, outcome, file, slept, ledgerWrites>>

\* lines 291-292
AttemptRateLimited ==
    \E e \in Outcomes :
        /\ pc = "attempt"
        /\ e.cls = "TooManyRequests"
        /\ Issue(1, e)
        /\ pc' = "rl_write"
        /\ UNCHANGED <<frame, outcome, file, slept, ledgerWrites, log, i, deleted, failed, batch_count>>

\* lines 319-321 with an entry appended for the item that is gone
AttemptNotFound_Logged ==
    \E e \in Outcomes :
        /\ pc = "attempt"
        /\ e.cls = "NotFound"
        /\ Issue(1, e)
        /\ deleted' = deleted + 1
        /\ log' = Append(log, LogEntry(remaining[i], runs))
        /\ Continue(batch_count)
        /\ UNCHANGED <<frame, outcome, file, slept, ledgerWrites, failed, batch_count>>

\* lines 319-321
AttemptNotFound ==
    \E e \in Outcomes :
        /\ pc = "attempt"
        /\ e.cls = "NotFound"
        /\ Issue(1, e)
        /\ deleted' = deleted + 1
        /\ Continue(batch_count)
        /\ UNCHANGED <<frame, outcome, file, slept, ledgerWrites, log, failed, batch_count>>

\* lines 323-331
AttemptForbidden ==
    \E e \in Outcomes :
        /\ pc = "attempt"
        /\ e.cls = "Forbidden"
        /\ Issue(1, e)
        /\ IF IsExhaustedForbidden(e.msg)
           THEN Break /\ UNCHANGED <<deleted, failed, batch_count, log>>
           ELSE Fail /\ Continue(batch_count)
        /\ UNCHANGED <<frame, outcome, file, slept, ledgerWrites>>

\* lines 333-341
AttemptException ==
    \E e \in Outcomes :
        /\ pc = "attempt"
        /\ e.cls = "Exception"
        /\ Issue(1, e)
        /\ IF IsExhaustedException(e.msg)
           THEN Break /\ UNCHANGED <<deleted, failed, batch_count, log>>
           ELSE Fail /\ Continue(batch_count)
        /\ UNCHANGED <<frame, outcome, file, slept, ledgerWrites>>

\* line 293 left out
RateLimitedWrite_Skipped ==
    /\ pc = "rl_write"
    /\ pc' = "rl_sleep"
    /\ UNCHANGED <<frame, outcome, slept, locals, faults, nCalls, nRetries, lastCall, sincePause,
                   succeeded, file, ledgerWrites>>

\* line 293
RateLimitedWrite ==
    /\ pc = "rl_write"
    /\ WriteLedger
    /\ pc' = "rl_sleep"
    /\ UNCHANGED <<frame, outcome, slept, locals, faults, nCalls, nRetries, lastCall, sincePause,
                   succeeded>>

\* lines 294-295
RateLimitedSleep ==
    /\ pc = "rl_sleep"
    /\ Sleep(RATE_LIMIT_WINDOW + SLEEP_BUFFER)
    /\ batch_count' = 0
    /\ pc' = "retry"
    /\ UNCHANGED <<frame, outcome, file, ledgerWrites, log, i, deleted, failed, faults,
                   nCalls, nRetries, lastCall, succeeded>>

\* lines 298-306
RetryOk ==
    /\ pc = "retry"
    /\ Issue(2, [cls |-> "ok", msg |-> {}])
    /\ Succeed
    /\ Continue(batch_count')
    /\ UNCHANGED <<frame, outcome, file, slept, ledgerWrites>>

\* lines 307-314
RetryForbidden ==
    \E e \in Outcomes :
        /\ pc = "retry"
        /\ e.cls = "Forbidden"
        /\ Issue(2, e)
        /\ IF IsExhaustedRetry(e.msg)
           THEN Break /\ UNCHANGED <<deleted, failed, batch_count, log>>
           ELSE Fail /\ Continue(batch_count)
        /\ UNCHANGED <<frame, outcome, file, slept, ledgerWrites>>

\* lines 315-317: any other exception of the retry, TooManyRequests and
\* NotFound included
RetryException ==
    \E e \in Outcomes :
        /\ pc = "retry"
        /\ e.cls \in {"TooManyRequests", "NotFound", "Exception"}
        /\ Issue(2, e)
        /\ Fail
        /\ Continue(batch_count)
        /\ UNCHANGED <<frame, outcome, file, slept, ledgerWrites>>

\* lines 328 and 338, and 311: the write before the break
AbortWrite ==
    /\ pc = "abort_write"
    /\ WriteLedger
    /\ pc' = "final_write"
    /\ UNCHANGED <<frame, outcome, slept, locals, faults, nCalls, nRetries, lastCall, sincePause,
                   succeeded>>

\* line 346
PauseWrite ==
    /\ pc = "pause_write"
    /\ WriteLedger
    /\ pc' = "pause_sleep"
    /\ UNCHANGED <<frame, outcome, slept, locals, faults, nCalls, nRetries, lastCall, sincePause,
                   succeeded>>

\* lines 347-348
PauseSleep ==
    /\ pc = "pause_sleep"
    /\ Sleep(RATE_LIMIT_WINDOW + SLEEP_BUFFER)
    /\ batch_count' = 0
    /\ Advance
    /\ UNCHANGED <<frame, outcome, file, ledgerWrites, log, deleted, failed, faults,
                   nCalls, nRetries, lastCall, succeeded>>

\* lines 350-356
FinalWrite ==
    /\ pc = "final_write"
    /\ WriteLedger
    /\ pc' = "done"
    /\ outcome' = Returned
    /\ UNCHANGED <<frame, slept, locals, faults, nCalls, nRetries, lastCall, sincePause,
                   succeeded>>

(***************************************************************************)
(* The process is killed.                                                  *)
(***************************************************************************)
\* the memory of the process is gone
Die ==
    /\ pc' = "dead"
    /\ outcome' = Killed
    /\ log' = <<>>
    /\ already_deleted_ids' = {}
    /\ remaining' = <<>>
    /\ i' = 1
    /\ deleted' = 0
    /\ failed' = 0
    /\ batch_count' = 0
    /\ nCalls' = 0
    /\ nRetries' = 0
    /\ lastCall' = NoCall
    /\ sincePause' = 0
    /\ succeeded' = {}
    /\ ledgerReads' = 0
    /\ ledgerWrites' = 0
    /\ slept' = 0
    /\ UNCHANGED <<tweets, args, runs, faults, prevRun, startFile, outside>>

\* killed between two steps
Kill ==
    /\ pc \in Running
    /\ Die
    /\ UNCHANGED file

\* killed inside write_text, after the file was truncated and before the
\* whole text was written
KillDuringWrite ==
    /\ pc \in Writing
    /\ Die
    /\ file' = TornFile

Next ==
    \/ ReturnEarly
    \/ LoadLedger
    \/ AttemptOk
    \/ AttemptRateLimited
    \/ AttemptNotFound
    \/ AttemptForbidden
    \/ AttemptException
    \/ RateLimitedWrite
    \/ RateLimitedSleep
    \/ RetryOk
    \/ RetryForbidden
    \/ RetryException
    \/ AbortWrite
    \/ PauseWrite
    \/ PauseSleep
    \/ FinalWrite
    \/ Kill
    \/ KillDuringWrite

Spec == Init /\ [][Next]_vars

(***************************************************************************)
(* filter_tweets, lines 172-218.                                           *)
(***************************************************************************)
\* longest list given to filter_tweets
MaxFiltered == 2

\* the texts of created_at and of the date options: the isoformat() of the
\* API, the same with Z, a date alone, and the format of the archive
IsoEarly == "2022-03-01T10:00:00+00:00"

IsoBound == "2023-01-01T00:00:00+00:00"

IsoBoundZ == "2023-01-01T00:00:00Z"

IsoLate == "2024-02-02T08:00:00+00:00"

DateOnly == "2023-01-01"

ArchiveDate == "Wed Oct 10 20:19:24 +0000 2018"

SlashDate == "01/01/2023"

\* str.replace("Z", "+00:00") on these texts
ReplaceZ(s) == IF s = IsoBoundZ THEN IsoBound ELSE s

\* datetime.fromisoformat: the instant, counted in the order of the instants
\* above, and whether the text carries an offset; ok is FALSE for ValueError
fromisoformat(s) ==
    CASE s = IsoEarly -> [ok |-> TRUE, at |-> 1, aware |-> TRUE]
      [] s = IsoBound -> [ok |-> TRUE, at |-> 2, aware |-> TRUE]
      [] s = DateOnly -> [ok |-> TRUE, at |-> 2, aware |-> FALSE]
      [] s = IsoLate -> [ok |-> TRUE, at |-> 3, aware |-> TRUE]
      [] OTHER -> [ok |-> FALSE, at |-> 0, aware |-> FALSE]

\* the truth value Python gives a string or None
Truthy(s) == s # None /\ s # ""

\* str.lower on the characters in use
LowerChar(c) ==
    CASE c = "A" -> "a"
      [] c = "H" -> "h"
      [] c = "I" -> "i"
      [] c = "Y" -> "y"
      [] OTHER -> c

Lower(s) == [k \in 1..Len(s) |-> LowerChar(s[k])]

\* the operator in of two strings
In(sub, s) ==
    \E k \in 1..(Len(s) - Len(sub) + 1) : SubSeq(s, k, k + Len(sub) - 1) = sub

\* the items given to filter_tweets
FilterItems ==
    { [id |-> "1", text |-> <<"A", "d">>, created_at |-> IsoEarly],
      [id |-> "2", text |-> <<"h", "i">>, created_at |-> IsoBoundZ],
      [id |-> "3", text |-> <<"H", "i">>, created_at |-> IsoLate],
      [id |-> "4", text |-> <<"a", "d">>, created_at |-> ArchiveDate],
      [id |-> "5", text |-> <<"h", "i">>, created_at |-> None] }

FilterLists == SeqsUpTo(FilterItems, MaxFiltered)

DateOptions == {None, DateOnly, IsoBound, SlashDate}

TextOptions == {NoText, <<"a", "d">>, <<"H", "I">>}

\* lines 180-189: the item is kept by --before; the comparison of line 184
\* raises TypeError when before_dt carries an offset
KeptBefore(t, before_dt) ==
    IF Truthy(t.created_at)
    THEN LET tweet_date == fromisoformat(ReplaceZ(t.created_at))
         IN  IF ~tweet_date.ok THEN TRUE
             ELSE IF before_dt.aware THEN TRUE
             ELSE tweet_date.at < before_dt.at
    ELSE TRUE

\* lines 197-204: the item is kept by --after
KeptAfter(t, after_dt) ==
    IF Truthy(t.created_at)
    THEN LET tweet_date == fromisoformat(ReplaceZ(t.created_at))
         IN  IF ~tweet_date.ok THEN FALSE
             ELSE IF after_dt.aware THEN FALSE
             ELSE tweet_date.at > after_dt.at
    ELSE FALSE

\* lines 176-191
FilterBefore(ts, before) ==
    IF Truthy(before)
    THEN SelectSeq(ts, LAMBDA t : KeptBefore(t, fromisoformat(before)))
    ELSE ts

\* lines 193-206
FilterAfter(ts, after) ==
    IF Truthy(after)
    THEN SelectSeq(ts, LAMBDA t : KeptAfter(t, fromisoformat(after)))
    ELSE ts

\* lines 208-211
FilterContains(ts, c) ==
    IF c # NoText
    THEN SelectSeq(ts, LAMBDA t : In(Lower(c), Lower(t.text)))
    ELSE ts

\* lines 213-216
FilterExclude(ts, x) ==
    IF x # NoText
    THEN SelectSeq(ts, LAMBDA t : ~In(Lower(x), Lower(t.text)))
    ELSE ts

\* lines 172-218
filter_tweets(ts, before, after, c, x) ==
    FilterExclude(FilterContains(FilterAfter(FilterBefore(ts, before), after), c), x)

\* lines 177 and 194: fromisoformat of a date option raises ValueError
BadOption(before, after) ==
    \/ Truthy(before) /\ ~fromisoformat(before).ok
    \/ Truthy(after) /\ ~fromisoformat(after).ok

\* delete_tweets is not in use
NoDelete ==
    /\ file = NoFile
    /\ faults = 0
    /\ slept = 0
    /\ dry_run = FALSE
    /\ skip_confirm = FALSE
    /\ typed = NoInput
    /\ FreshLocals
    /\ runs = 0
    /\ FreshObservers
    /\ prevRun = "none"
    /\ outcome = NoOutcome

FilterInit ==
    /\ tweets \in FilterLists
    /\ before_date \in DateOptions
    /\ after_date \in DateOptions
    /\ contains \in TextOptions
    /\ exclude_contains \in TextOptions
    /\ filtered = <<>>
    /\ pc = "filter"
    /\ NoDelete
    /\ NoFetch

filterFrame == <<tweets, file, slept, args, locals, runs, faults, observers, prevRun,
                 outcome,
                 before_date, after_date, contains, exclude_contains, fetchVars>>

\* line 218: the function returns the filtered list
FilterReturns ==
    /\ pc = "filter"
    /\ ~BadOption(before_date, after_date)
    /\ filtered' = filter_tweets(tweets, before_date, after_date, contains,
                                 exclude_contains)
    /\ pc' = "filtered"
    /\ UNCHANGED filterFrame

\* lines 177, 194: the ValueError of a date option ends the process
FilterRaises ==
    /\ pc = "filter"
    /\ BadOption(before_date, after_date)
    /\ pc' = "dead"
    /\ UNCHANGED <<filtered, filterFrame>>

FilterNext ==
    \/ FilterReturns
    \/ FilterRaises

SpecFilter == FilterInit /\ [][FilterNext]_vars

(***************************************************************************)
(* fetch_tweets_from_api, lines 88-138.                                    *)
(***************************************************************************)
\* most pages the remote timeline has
MaxPages == 3

\* the tweet the remote lists on page p, as lines 122-126 store it
ItemOfPage(p) ==
    [id |-> ToString(p), text |-> <<"h", "i">>,
     created_at |-> IF p % 2 = 1 THEN IsoEarly ELSE None]

\* a tweet of an earlier fetch that the remote no longer lists
StaleItem == [id |-> "0", text |-> <<"a", "d">>, created_at |-> IsoEarly]

\* the remote timeline: for each page whether response.data holds a tweet
Timelines == SeqsUpTo({"data", "empty"}, MaxPages) \ {<<>>}

InitialCaches == {NoFile, FileOf(<<StaleItem>>)}

\* what the user may type at line 97
Answers == {<<"y">>, <<"Y", " ">>, <<"n">>, <<>>}

\* lines 97-98
UseCache(line) == Lower(Strip(line)) = <<"y">>

\* the page that get_users_tweets returns for the token
PageOfToken(tok) ==
    IF tok = None THEN 1
    ELSE CHOOSE p \in 1..(MaxPages + 1) : ToString(p) = tok

\* response.data of page p
DataOf(tl, p) == IF tl[p] = "data" THEN <<ItemOfPage(p)>> ELSE <<>>

\* the tweets of pages 1..k
RECURSIVE Accumulated(_, _)
Accumulated(tl, k) ==
    IF k = 0 THEN <<>> ELSE Accumulated(tl, k - 1) \o DataOf(tl, k)

FetchInit ==
    /\ cache \in InitialCaches
    /\ timeline \in Timelines
    /\ pagination_token = None
    /\ answer = <<>>
    /\ requests = <<>>
    /\ failedAt = 0
    /\ pagesDone = 0
    /\ returned = <<>>
    /\ prevFetch = NoPrevFetch
    /\ tweets = <<>>
    /\ pc = "fetch_idle"
    /\ NoDelete
    /\ NoFilter

fetchFrame == <<file, slept, args, locals, faults, observers, prevRun, outcome,
                filterVars,
                timeline>>

FetchStopped == {"fetch_idle", "fetched", "dead"}

FetchWriting == {"page_write", "error_write"}

\* the fetch before this one stopped after at least one page and before the
\* last, and the cache holds the tweets of the pages it had processed
CutShort ==
    /\ pc = "dead" \/ failedAt > 0
    /\ pagesDone >= 1
    /\ pagesDone < Len(timeline)
    /\ cache = FileOf(Accumulated(timeline, pagesDone))

\* the function is called, in a new process
FetchInvoke ==
    /\ pc \in FetchStopped
    /\ runs < MaxRuns
    /\ runs' = runs + 1
    /\ prevFetch' = IF CutShort THEN [cut |-> TRUE, pages |-> pagesDone]
                    ELSE NoPrevFetch
    /\ requests' = <<>>
    /\ failedAt' = 0
    /\ pagesDone' = 0
    /\ pagination_token' = None
    /\ tweets' = <<>>
    /\ UNCHANGED <<cache, fetchFrame>>

\* line 95: json.loads raises on a cache file that is not a JSON text
CacheUnreadable ==
    /\ FetchInvoke
    /\ cache.exists /\ ~cache.valid
    /\ answer' = <<>>
    /\ returned' = <<>>
    /\ pc' = "dead"

\* lines 94-99: the cached list is returned
ReturnCached ==
    \E line \in Answers :
        /\ FetchInvoke
        /\ cache.exists /\ cache.valid
        /\ UseCache(line)
        /\ answer' = line
        /\ returned' = cache.entries
        /\ pc' = "fetched"

\* lines 94-103: no cache, or the user declines it: fetch from the start
StartFetch ==
    \E line \in Answers :
        /\ FetchInvoke
        /\ \/ ~cache.exists /\ line = <<>>
           \/ cache.exists /\ cache.valid /\ ~UseCache(line)
        /\ answer' = line
        /\ returned' = <<>>
        /\ pc' = "request"

\* lines 131-138 after page p: the next page, or the return of the list
NextPage(p, ts) ==
    IF p < Len(timeline)
    THEN /\ pagination_token' = ToString(p + 1)
         /\ pc' = "request"
         /\ returned' = returned
    ELSE /\ pagination_token' = pagination_token
         /\ pc' = "fetched"
         /\ returned' = ts

\* lines 107-127: a page with data is appended to tweets
PageWithData ==
    LET p == PageOfToken(pagination_token) IN
    /\ pc = "request"
    /\ timeline[p] = "data"
    /\ requests' = Append(requests, p)
    /\ tweets' = tweets \o DataOf(timeline, p)
    /\ pc' = "page_write"
    /\ UNCHANGED <<cache, fetchFrame, runs, prevFetch, answer, failedAt, pagesDone,
                   pagination_token, returned>>

\* line 129 left out
PageWrite_Skipped ==
    /\ pc = "page_write"
    /\ pagesDone' = pagesDone + 1
    /\ NextPage(PageOfToken(pagination_token), tweets)
    /\ UNCHANGED <<cache, fetchFrame, runs, prevFetch, answer, failedAt, requests, tweets>>

\* lines 129-134: the list is written to the cache file
PageWrite ==
    /\ pc = "page_write"
    /\ cache' = FileOf(tweets)
    /\ pagesDone' = pagesDone + 1
    /\ NextPage(PageOfToken(pagination_token), tweets)
    /\ UNCHANGED <<fetchFrame, runs, prevFetch, answer, failedAt, requests, tweets>>

\* lines 107-120, 131-134: a page without data writes nothing
PageWithoutData ==
    LET p == PageOfToken(pagination_token) IN
    /\ pc = "request"
    /\ timeline[p] = "empty"
    /\ requests' = Append(requests, p)
    /\ pagesDone' = pagesDone + 1
    /\ NextPage(p, tweets)
    /\ UNCHANGED <<cache, fetchFrame, runs, prevFetch, answer, failedAt, tweets>>

\* lines 113-118: get_users_tweets raises
RequestFails ==
    /\ pc = "request"
    /\ requests' = Append(requests, PageOfToken(pagination_token))
    /\ failedAt' = Len(requests) + 1
    /\ IF tweets # <<>>
       THEN pc' = "error_write" /\ returned' = returned
       ELSE pc' = "fetched" /\ returned' = tweets
    /\ UNCHANGED <<cache, fetchFrame, runs, prevFetch, answer, pagesDone,
                   pagination_token, tweets>>

\* lines 117-118, 136-138
ErrorWrite ==
    /\ pc = "error_write"
    /\ cache' = FileOf(tweets)
    /\ pc' = "fetched"
    /\ returned' = tweets
    /\ UNCHANGED <<fetchFrame, runs, prevFetch, answer, failedAt, pagesDone,
                   pagination_token, requests, tweets>>

\* the memory of the fetching process is gone
FetchDie ==
    /\ pc' = "dead"
    /\ tweets' = <<>>
    /\ pagination_token' = None
    /\ UNCHANGED <<fetchFrame, runs, prevFetch, answer, failedAt, pagesDone, requests,
                   returned>>

\* killed between two steps
FetchKill ==
    /\ pc \in {"request"} \cup FetchWriting
    /\ FetchDie
    /\ UNCHANGED cache

\* killed inside write_text, after the file was truncated and before the
\* whole text was written
FetchKillDuringWrite ==
    /\ pc \in FetchWriting
    /\ FetchDie
    /\ cache' = TornFile

FetchNext ==
    \/ CacheUnreadable
    \/ ReturnCached
    \/ StartFetch
    \/ PageWithData
    \/ PageWrite
    \/ PageWithoutData
    \/ RequestFails
    \/ ErrorWrite
    \/ FetchKill
    \/ FetchKillDuringWrite

SpecFetch == FetchInit /\ [][FetchNext]_vars

(***************************************************************************)
(* Properties.                                                             *)
(***************************************************************************)
\* the first attempts of this run
nFirst == nCalls - nRetries

\* the run passed the gate and is in, or has left, the deletion loop
InLoop == pc \in Running \/ (pc = "done" /\ Len(remaining) > 0)

\* the loop was left by a break
Aborted == pc \in {"abort_write", "final_write", "done"} /\ i <= Len(remaining)

\* the ids the ledger file holds
FileIds == IdsOf(file.entries)

C2_LedgerFlushedBeforeEachCall ==
    pc \in {"attempt", "retry"} => succeeded \subseteq FileIds

\* C3: no delete call is issued for a candidate whose id is in the ledger
\* file the run loaded, whatever its text and date; a run that is not cut
\* short issues exactly one first attempt per candidate whose id is not in it.
C3_LedgerIdsSkipped ==
    /\ lastCall.idx > 0 =>
          remaining[lastCall.idx].id \notin IdsOf(startFile.entries)
    /\ (pc = "done" /\ InLoop /\ ~Aborted) =>
          nFirst = Cardinality({k \in 1..Len(tweets) :
                                   tweets[k].id \notin IdsOf(startFile.entries)})
    /\ (tweets = <<T1, T2>> /\ startFile = FileOf(<<LogEntry(T1b, 0)>>)
            /\ pc = "done" /\ InLoop /\ ~Aborted) =>
          nFirst = 1 /\ remaining[lastCall.idx].id = "2"

C3_Witness ==
    /\ tweets = <<T1, T2>>
    /\ startFile = FileOf(<<LogEntry(T1b, 0)>>)
    /\ pc = "done"
    /\ nCalls = 1
    /\ lastCall = [idx |-> 1, attempt |-> 1, kind |-> "ok"]
    /\ remaining = <<T2>>

\* C4: once a first attempt is answered with the exhaustion signal the loop
\* is left at that item: no later state of the run is one that issues a call,
\* and when the run has ended the ledger file holds the whole in-memory
\* ledger, so an entry for every item deleted before.
C4_AbortOnExhaustion ==
    (lastCall.attempt = 1 /\ lastCall.kind = "exhausted") =>
        /\ pc \in {"abort_write", "final_write", "done"}
        /\ i = lastCall.idx
        /\ nFirst = lastCall.idx
        /\ pc \in {"final_write", "done"} =>
              /\ file = FileOf(log)
              /\ succeeded \subseteq FileIds

C4_Witness ==
    /\ pc = "done"
    /\ lastCall = [idx |-> 2, attempt |-> 1, kind |-> "exhausted"]
    /\ succeeded = {"1"}
    /\ Len(remaining) = 2

\* C5: a run never has more than RATE_LIMIT_DELETES delete calls, counting
\* every call, since its last pause of at least RATE_LIMIT_WINDOW seconds.
C5_QuotaPerWindow == sincePause <= RATE_LIMIT_DELETES

\* C6: a rate-limited first attempt is followed by the write of the ledger,
\* then by the sleep of the window plus the buffer, then by one retry of the
\* same item; the k-th first attempt is for the k-th remaining item and a
\* retry follows only a rate-limited first attempt of the same item, so no
\* item gets more than two calls and a retry is never retried.
C6_RateLimitedThenWriteSleepRetry ==
    /\ [](/\ (lastCall.attempt = 1 /\ lastCall.kind = "ratelimited") =>
                 /\ pc \in {"rl_write", "rl_sleep", "retry"}
                 /\ i = lastCall.idx
          /\ pc = "rl_sleep" => file = FileOf(log) /\ sincePause > 0
          /\ pc = "retry" =>
                 /\ file = FileOf(log)
                 /\ sincePause = 0
                 /\ slept >= RATE_LIMIT_WINDOW + SLEEP_BUFFER
                 /\ lastCall = [idx |-> i, attempt |-> 1, kind |-> "ratelimited"]
          /\ lastCall.attempt = 2 => pc \notin {"rl_write", "rl_sleep", "retry"}
          /\ nRetries <= nFirst)
    /\ [][nCalls' = nCalls + 1 =>
             \/ /\ lastCall'.attempt = 1
                /\ lastCall'.idx = nFirst + 1
                /\ nRetries' = nRetries
             \/ /\ lastCall'.attempt = 2
                /\ lastCall = [idx |-> lastCall'.idx, attempt |-> 1,
                               kind |-> "ratelimited"]
                /\ nRetries' = nRetries + 1]_vars

C6_Witness ==
    /\ lastCall = [idx |-> 1, attempt |-> 2, kind |-> "ratelimited"]
    /\ pc = "attempt"
    /\ i = 2
    /\ nCalls = 2
    /\ failed = 1

\* C7: once a retry is answered with the exhaustion signal the loop is left
\* at that item and the ledger is written.
C7_AbortOnExhaustedRetry ==
    (lastCall.attempt = 2 /\ lastCall.kind = "exhausted") =>
        /\ pc \in {"abort_write", "final_write", "done"}
        /\ i = lastCall.idx

\* C8: a dry run issues no delete call, neither reads nor writes the ledger
\* file, does not sleep and leaves the rate counter at its start value.
C8_DryRunTouchesNothing ==
    dry_run =>
        /\ nCalls = 0
        /\ ledgerReads = 0
        /\ ledgerWrites = 0
        /\ file = startFile
        /\ slept = 0
        /\ batch_count = 0
        /\ pc \in Stopped

C8_Witness ==
    /\ dry_run
    /\ skip_confirm
    /\ pc = "done"
    /\ Len(tweets) > 0
    /\ file = TornFile

\* C9, as claimed: a run issues a delete call or writes the ledger file only
\* if --yes was given or the typed text is exactly DELETE.
C9_ExactConfirmation ==
    (nCalls > 0 \/ ledgerWrites > 0 \/ pc \in Running) =>
        skip_confirm \/ typed = DELETE

\* the typed line is DELETE between two runs of whitespace
DeleteBetweenBlanks(line) ==
    \E a \in 0..Len(line), b \in 0..Len(line) :
        /\ a + Len(DELETE) + b = Len(line)
        /\ \A k \in 1..a : line[k] \in Whitespace
        /\ SubSeq(line, a + 1, a + Len(DELETE)) = DELETE
        /\ \A k \in (a + Len(DELETE) + 1)..Len(line) : line[k] \in Whitespace

\* C9, amended: a run issues a delete call or writes the ledger file only if
\* it is no dry run and --yes was given or the typed text, leading and
\* trailing whitespace apart, is exactly DELETE.
C9_ConfirmationUpToBlanks ==
    (nCalls > 0 \/ ledgerWrites > 0 \/ pc \in Running) =>
        /\ ~dry_run
        /\ skip_confirm \/ DeleteBetweenBlanks(typed)

C9_Witness ==
    /\ nCalls > 0
    /\ ~skip_confirm
    /\ typed = DELETE \o <<" ">>

\* C10: a delete call answered with a failure that is neither not-found,
\* rate-limited nor exhaustion adds one to failed, appends nothing to the
\* ledger and writes nothing, and the loop goes on to the next item; a run
\* that is not aborted issues a first attempt for every remaining item.
C10_OtherFailureNotFatal ==
    /\ [][(nCalls' = nCalls + 1 /\ lastCall'.kind = "other") =>
             /\ failed' = failed + 1
             /\ deleted' = deleted
             /\ log' = log
             /\ file' = file
             /\ i' = i + 1
             /\ pc' = IF i < Len(remaining) THEN "attempt" ELSE "final_write"]_vars
    /\ []((pc = "done" /\ InLoop /\ ~Aborted) => nFirst = Len(remaining))

C10_Witness ==
    /\ pc = "done"
    /\ failed = 1
    /\ deleted = 1
    /\ nCalls = 2
    /\ lastCall = [idx |-> 2, attempt |-> 1, kind |-> "ok"]

\* C11: a delete call answered with NotFound, on the first attempt or on the
\* retry after a rate-limit sleep, counts the item as deleted and not as
\* failed, appends nothing to the ledger, and is the last call for that item.
C11_NotFoundIsSuccess ==
    [][(nCalls' = nCalls + 1 /\ lastCall'.kind = "notfound") =>
          /\ deleted' = deleted + 1
          /\ failed' = failed
          /\ log' = log
          /\ pc' \notin {"rl_write", "rl_sleep", "retry"}]_vars

\* no two entries of the list have the same id
UniqueIds(entries) ==
    \A j \in 1..Len(entries), k \in 1..Len(entries) :
        entries[j].id = entries[k].id => j = k

\* C12: in every reachable state no id occurs in more than one entry of the
\* ledger, in the file and in the list the run holds in memory, whatever the
\* candidate list (the same id twice included), the number of runs and the
\* answers of the delete calls.
C12_LedgerIdsUnique ==
    /\ (file.exists /\ file.valid) => UniqueIds(file.entries)
    /\ UniqueIds(log)

\* the entries a ledger file holds; a file that does not exist holds none
Content(f) == IF f.exists THEN f.entries ELSE <<>>

\* list a is the beginning of list b
IsPrefix(a, b) == Len(a) <= Len(b) /\ SubSeq(b, 1, Len(a)) = a

\* C13: every step that changes the ledger file leaves a readable file whose
\* list begins with the entries the file held before the step: no entry once
\* written is removed, reordered or modified.
C13_LedgerAppendOnly ==
    [][file' # file =>
          /\ file'.exists
          /\ file'.valid
          /\ IsPrefix(Content(file), Content(file'))]_vars

\* the item has no date that can be compared: created_at is missing, or a
\* text that datetime.fromisoformat rejects
Undated(t) ==
    \/ ~Truthy(t.created_at)
    \/ ~fromisoformat(ReplaceZ(t.created_at)).ok

\* C14: the date filters drop no item whose created_at is missing or cannot be
\* parsed: with --before, with --after or with both, the items of that kind
\* in the result are those that the text filters alone let through.
C14_DateFiltersFailOpen ==
    pc = "filtered" =>
        SelectSeq(filtered, Undated) =
            SelectSeq(filter_tweets(tweets, None, None, contains, exclude_contains),
                      Undated)

\* C15, as claimed: after each page the fetch has processed the cache file
\* holds exactly the tweets accumulated so far; when a request raises, the
\* accumulated tweets are in the cache file, no further request is made and
\* the accumulated list is returned.
C15_CacheHoldsAccumulated ==
    /\ (pc = "request" /\ requests # <<>>) => cache = FileOf(tweets)
    /\ (pc = "fetched" /\ failedAt > 0) =>
           cache = FileOf(tweets) /\ returned = tweets
    /\ failedAt > 0 => failedAt = Len(requests)

\* C15, amended: the accumulator holds the tweets of the pages processed, and
\* once it holds a tweet the cache file holds exactly the accumulator after
\* each page, a page without data writing nothing; when a request raises no
\* further request is made, the accumulated list is returned, and it is in
\* the cache file if it holds a tweet.
C15_CacheHoldsAccumulatedItems ==
    /\ (pc \in {"request", "fetched"} /\ requests # <<>>) =>
           tweets = Accumulated(timeline, pagesDone)
    /\ (pc = "request" /\ tweets # <<>>) => cache = FileOf(tweets)
    /\ (pc = "fetched" /\ failedAt > 0) =>
           /\ returned = tweets
           /\ tweets # <<>> => cache = FileOf(tweets)
    /\ failedAt > 0 =>
           /\ failedAt = Len(requests)
           /\ pc \in {"error_write", "fetched", "dead"}

C15_Witness ==
    /\ pc = "fetched"
    /\ failedAt = 3
    /\ Len(tweets) = 2
    /\ cache = FileOf(tweets)
    /\ returned = tweets

\* the returned list holds a tweet of a page after page k
HoldsPageAfter(k) ==
    \E n \in 1..Len(returned), p \in (k + 1)..Len(timeline) :
        returned[n] = ItemOfPage(p)

\* C16: when the fetch before this one was cut short after k complete pages
\* with its cache written, a fetch that returns tweets of the pages after k
\* has obtained them without requesting any of the pages 1..k again.
C16_FetchResumes ==
    (pc = "fetched" /\ prevFetch.cut /\ HoldsPageAfter(prevFetch.pages)) =>
        \A j \in 1..prevFetch.pages, n \in 1..Len(requests) : requests[n] # j

\* C17: a run that stopped on an exhaustion signal ends with a result or an
\* exit status other than that of a run that processed every remaining item.
C17_AbortSignalled ==
    (pc = "done" /\ InLoop) => (outcome = Returned <=> ~Aborted)

\* C18: a process that dies while it writes the ledger file leaves the file
\* with the complete content it had before the write or with the complete
\* new list, never empty or cut off.
C18_AtomicReplacement ==
    [][(pc \in Writing /\ pc' = "dead") => file' \in {file, FileOf(log)}]_vars

\* the entries this run loaded from the ledger file
Loaded == Content(startFile)

\* C19: the entries a run appends to the ledger are, one for one, the delete
\* calls of the run that returned without raising: each is the entry of an
\* item of remaining that the loop has reached and whose call, first attempt
\* or retry, succeeded in this run; a call that failed or was answered
\* NotFound, and an item never called, add none; and the entries added are
\* never more than the deleted counter.
C19_LedgerSound ==
    InLoop =>
        /\ IsPrefix(Loaded, log)
        /\ Len(log) - Len(Loaded) = nCalls - faults
        /\ Len(log) - Len(Loaded) <= deleted
        /\ \A k \in (Len(Loaded) + 1)..Len(log) :
               /\ log[k].id \in succeeded
               /\ \E j \in 1..Len(remaining) :
                      j <= i /\ log[k] = LogEntry(remaining[j], runs)

C19_Witness ==
    /\ pc = "done"
    /\ nCalls = 2
    /\ lastCall = [idx |-> 2, attempt |-> 1, kind |-> "notfound"]
    /\ deleted = 2
    /\ Len(log) = Len(Loaded) + 1

\* C20: every item the loop has processed added one to exactly one of deleted
\* and failed: while item i is at its call, its retry or its abort the two
\* counters add up to i - 1, after it is processed to i; a run that is not
\* aborted ends with their sum the number of remaining items, and a run
\* aborted at item k with k - 1.
C20_OutcomeAccounting ==
    InLoop =>
        /\ pc \in {"attempt", "rl_write", "rl_sleep", "retry"} =>
               deleted + failed = i - 1
        /\ pc \in {"pause_write", "pause_sleep"} => deleted + failed = i
        /\ (pc \in {"final_write", "done"} /\ ~Aborted) =>
               deleted + failed = Len(remaining)
        /\ Aborted => deleted + failed = i - 1
        /\ deleted + failed <= nFirst

C20_Witness ==
    /\ pc = "done"
    /\ Aborted
    /\ i = 2
    /\ failed = 1
    /\ deleted = 0
    /\ nCalls = 2

====
